---- MODULE Spec2Model ----
(***************************************************************************)
(* A model of mlpack's feed-forward network class FFN (ffn_impl.hpp): the  *)
(* lifecycle of the parameter buffer, of the layers' weight aliases and of *)
(* the two readiness flags, and the passes the public entry points drive   *)
(* through the layer graph.                                                *)
(*                                                                         *)
(* Matrices are modelled by their shape. The layers' weight views are      *)
(* modelled by what they point at: nothing, the storage the parameter      *)
(* buffer has now, or storage the buffer has released.                     *)
(* Every public member function is one action; the members it calls are    *)
(* operators on a call frame [c, log, err, res]: the object, the calls     *)
(* made so far, the exception in flight, and the output argument.          *)
(***************************************************************************)
EXTENDS Integers, Sequences, FiniteSets, TLC

VARIABLES
  ffn,      \* the FFN object
  op,       \* the last public call and its arguments
  err,      \* the exception the last public call ended with ("none" if it returned)
  log,      \* the member and layer-graph calls made by the last public call
  results,  \* the output argument (results, gradient) of the last public call
  pc        \* "optimizing" while Train is inside optimizer.Optimize, else "idle"

vars == <<ffn, op, err, log, results, pc>>

----------------------------------------------------------------------------
(* Bounds of the model.                                                    *)

\* Largest number of layers the caller adds to the graph.
MaxLayers == 1
\* Largest number of columns (examples) of a matrix handed to the object.
MaxCols == 2
\* batchSize arguments.
BatchSizes == 1..MaxCols

\* Number of outputs of every Linear layer the caller adds.
OutSize == 2

\* Row counts of the matrices handed to the object.
Rows == {3, 4}
\* Shapes the caller sets through InputDimensions() before the first use.
DimChoices == {<<>>, <<1, 3>>}
\* The layer types of a graph: all layers Linear, or all weightless (Identity).
Kinds == {"Linear", "Identity"}

----------------------------------------------------------------------------
(* Helpers.                                                                *)

RECURSIVE Product(_)
\* The product of a shape, as the loop of UpdateDimensions computes it.
Product(s) == IF s = <<>> THEN 1 ELSE Head(s) * Product(Tail(s))

RECURSIVE Accumulate(_)
\* std::accumulate(begin, end, 0): the sum of a shape.
Accumulate(s) == IF s = <<>> THEN 0 ELSE Head(s) + Accumulate(Tail(s))

Min(a, b) == IF a < b THEN a ELSE b

\* A matrix, by shape.
Mat(r, n) == [n_rows |-> r, n_cols |-> n]
EmptyMat == Mat(0, 0)

----------------------------------------------------------------------------
(* The layer graph (MultiLayer), an external collaborator.                 *)

\* network.WeightSize() once ComputeOutputDimensions has run on shape dims:
\* a chain of Linear layers (weights and bias), or weightless layers.
GraphWeightSize(kind, size, dims) ==
  IF kind = "Identity" \/ size = 0 THEN 0
  ELSE (Product(dims) * OutSize + OutSize) + (size - 1) * (OutSize * OutSize + OutSize)

\* network.OutputSize() once ComputeOutputDimensions has run on shape dims.
GraphOutputSize(kind, size, dims) ==
  IF kind = "Identity" \/ size = 0 THEN Product(dims) ELSE OutSize

\* network.InputDimensions() = dims; network.ComputeOutputDimensions().
ComputeOutputDimensions(net, dims) ==
  [net EXCEPT !.InputDimensions = dims,
              !.WeightSize = GraphWeightSize(net.kind, net.size, dims),
              !.OutputSize = GraphOutputSize(net.kind, net.size, dims)]

\* A graph of `size` layers of one kind, as the caller builds it: no shape
\* propagated, no weights bound.
NewGraph(kind, size) ==
  [kind |-> kind, size |-> size, InputDimensions |-> <<>>,
   WeightSize |-> GraphWeightSize(kind, size, <<0>>),
   OutputSize |-> 0, Training |-> FALSE, weights |-> "null"]

\* The layers' weight views point into the storage the parameter buffer has
\* now, and that storage holds a weight for each of them.
AliasesValid(c) ==
  /\ c.network.weights = (IF c.parameters.n_elem = 0 THEN "null" ELSE "parameters")
  /\ c.parameters.n_elem = c.network.WeightSize

----------------------------------------------------------------------------
(* Matrices the passes write.                                              *)

\* size_t arithmetic wraps; the modulus stands for 2^64.
SizeModulus == 2^30

\* One column of a graph output: the input column it was computed from (its
\* index in the caller's matrix) and the mode the graph was in.
ColOut(k, mode) == [col |-> k, mode |-> mode]

\* A column of a matrix after set_size(): not written yet.
Unset == [col |-> -1, mode |-> FALSE]

\* What network.Forward writes for n input columns, the first of which is
\* column `first` of the caller's matrix: one output column per input column.
GraphOutput(c, by, n, first) ==
  [n_rows |-> c.network.OutputSize, by |-> by,
   cols |-> [k \in 1..n |-> ColOut(first + k - 1, c.network.Training)]]

\* results.set_size(network.OutputSize(), n).
SetSize(c, by, n) ==
  [n_rows |-> c.network.OutputSize, by |-> by, cols |-> [k \in 1..n |-> Unset]]

\* dst with the columns of src copied to its columns at, at+1, ... (a strict
\* alias of those columns assigned a matrix of the alias's size).
WriteCols(dst, src, at) ==
  [dst EXCEPT !.cols = [j \in 1..Len(dst.cols) |->
      IF j > at /\ j <= at + Len(src.cols) THEN src.cols[j - at] ELSE dst.cols[j]]]

----------------------------------------------------------------------------
(* Call frames.                                                            *)

\* One entry of the log: the call, two of its arguments, and the object's
\* readiness when it was made.
Ev(name, c, a, b) ==
  [e |-> name, a |-> a, b |-> b,
   lm |-> c.layerMemoryIsSet, ids |-> c.inputDimensionsAreSet,
   weights |-> c.network.weights, valid |-> AliasesValid(c),
   mode |-> c.network.Training, n_elem |-> c.parameters.n_elem]

\* The frame of a public call on object c: nothing called, nothing thrown, the
\* output argument (res) not written. `checked` tells whether a column range
\* outside a matrix is caught (Armadillo's bounds check, which a build with
\* ARMA_NO_DEBUG leaves out).
Frame(c) == [c |-> c, log |-> <<>>, err |-> "none", res |-> <<>>, checked |-> TRUE]

Note(f, name, a, b) == [f EXCEPT !.log = Append(@, Ev(name, f.c, a, b))]

Throw(f, what) == [f EXCEPT !.err = what]

\* No exception is in flight. A member reached while one is in flight is not
\* run: the steps below pass such a frame on unchanged.
Ok(f) == f.err = "none"

\* A call of a collaborator (the layer graph, the output layer, the optimizer).
Invoke(f, name, a, b) == IF Ok(f) THEN Note(f, name, a, b) ELSE f

----------------------------------------------------------------------------
(* The private members of FFN.                                             *)

\* SetNetworkMode(training): the object's flag and the graph's.
SetNetworkMode(f, training) ==
  Note([f EXCEPT !.c.training = training, !.c.network.Training = training],
       "SetNetworkMode", 0, 0)

\* UpdateDimensions as it would be if the flag were set before the sizes are
\* compared: a failed call would leave inputDimensionsAreSet true.
UpdateDimensionsFlagFirst(f, inputDimensionality) ==
  LET c1 == IF Len(f.c.inputDimensions) = 0
              THEN [f.c EXCEPT !.inputDimensions = <<inputDimensionality>>]
              ELSE f.c
      f1 == Note([f EXCEPT !.c = [c1 EXCEPT !.inputDimensionsAreSet = TRUE]],
                 "UpdateDimensions", inputDimensionality, 0)
  IN  IF Product(c1.inputDimensions) # inputDimensionality /\ inputDimensionality # 0
        THEN Throw(f1, "logic_error")
      ELSE IF c1.inputDimensions = c1.network.InputDimensions
        THEN f1
      ELSE Note([f1 EXCEPT !.c.network = ComputeOutputDimensions(@, c1.inputDimensions)],
                "ComputeOutputDimensions", 0, 0)

\* UpdateDimensions as it would be without the early return: the shape is
\* pushed and the graph's output dimensions are computed on every call.
UpdateDimensionsAlwaysCascades(f, inputDimensionality) ==
  LET c1 == IF Len(f.c.inputDimensions) = 0
              THEN [f.c EXCEPT !.inputDimensions = <<inputDimensionality>>]
              ELSE f.c
      f1 == Note([f EXCEPT !.c = c1], "UpdateDimensions", inputDimensionality, 0)
  IN  IF Product(c1.inputDimensions) # inputDimensionality /\ inputDimensionality # 0
        THEN Throw(f1, "logic_error")
      ELSE Note([f1 EXCEPT
                   !.c.network = ComputeOutputDimensions(@, c1.inputDimensions),
                   !.c.inputDimensionsAreSet = TRUE],
                "ComputeOutputDimensions", 0, 0)

\* UpdateDimensions(functionName, inputDimensionality).
UpdateDimensions(f, inputDimensionality) ==
  LET c1 == IF Len(f.c.inputDimensions) = 0
              THEN [f.c EXCEPT !.inputDimensions = <<inputDimensionality>>]
              ELSE f.c
      totalInputSize == Product(c1.inputDimensions)
      f1 == Note([f EXCEPT !.c = c1], "UpdateDimensions", inputDimensionality, 0)
  IN  IF totalInputSize # inputDimensionality /\ inputDimensionality # 0
        THEN Throw(f1, "logic_error")
      ELSE IF c1.inputDimensions = c1.network.InputDimensions
        THEN [f1 EXCEPT !.c.inputDimensionsAreSet = TRUE]
      ELSE Note([f1 EXCEPT
                   !.c.network = ComputeOutputDimensions(@, c1.inputDimensions),
                   !.c.inputDimensionsAreSet = TRUE],
                "ComputeOutputDimensions", 0, 0)

\* NetworkInitialization::Initialize(network, parameters): an empty buffer is
\* sized to the layers' total weight size; the weights are then filled in
\* place. The allocator may hand out again the storage that views left behind
\* still point at (sameMem), or other storage.
Initialize(c, sameMem) ==
  IF c.parameters.n_elem = 0
    THEN [c EXCEPT !.parameters.n_elem = c.network.WeightSize,
                   !.network.weights =
                      IF @ = "released" /\ sameMem /\ c.network.WeightSize > 0
                        THEN "parameters" ELSE @]
    ELSE c

\* InitializeWeights().
InitializeWeights(f, sameMem) ==
  [SetNetworkMode(Note(f, "InitializeWeights", 0, 0), FALSE) EXCEPT
     !.c = Initialize(@, sameMem)]

\* SetLayerMemory(): a failed Log::Assert throws std::runtime_error.
SetLayerMemory(f) ==
  IF f.c.network.WeightSize # f.c.parameters.n_elem
    THEN Throw(Note(f, "SetLayerMemory", 0, 0), "runtime_error")
    ELSE [Note(f, "SetLayerMemory", 0, 0) EXCEPT
            !.c.network.weights = IF f.c.parameters.n_elem = 0 THEN "null" ELSE "parameters",
            !.c.layerMemoryIsSet = TRUE]

\* parameters.clear(): the storage is released, under the views bound to it.
ClearParameters(c) ==
  [c EXCEPT !.parameters.n_elem = 0,
            !.network.weights = IF @ = "parameters" THEN "released" ELSE @]

\* CheckNetwork, second step: the dimensions, if not bound.
CheckNetworkDimensions(f, inputDimensionality) ==
  IF ~f.c.inputDimensionsAreSet THEN UpdateDimensions(f, inputDimensionality) ELSE f

\* The third step of CheckNetwork as it would be if it reinitialized the
\* parameters on every call.
CheckNetworkParametersAlways(f, sameMem) ==
  IF ~Ok(f) THEN f
  ELSE InitializeWeights([f EXCEPT !.c = ClearParameters(@)], sameMem)

\* CheckNetwork, third step: the parameters, if empty or of the wrong size.
CheckNetworkParameters(f, sameMem) ==
  IF ~Ok(f) THEN f
  ELSE IF f.c.parameters.n_elem = 0 THEN InitializeWeights(f, sameMem)
  ELSE IF f.c.parameters.n_elem # f.c.network.WeightSize
    THEN InitializeWeights([f EXCEPT !.c = ClearParameters(@)], sameMem)
  ELSE f

\* The fourth step of CheckNetwork as it would be without the call of
\* SetLayerMemory: the layers are never bound to the parameters.
CheckNetworkMemoryNeverSet(f) == f

\* CheckNetwork, fourth step: the layers' memory, if not set.
CheckNetworkMemory(f) ==
  IF Ok(f) /\ ~f.c.layerMemoryIsSet THEN SetLayerMemory(f) ELSE f

\* CheckNetwork, last step: the mode, if the caller asked for it.
CheckNetworkMode(f, setMode, training) ==
  IF Ok(f) /\ setMode THEN SetNetworkMode(f, training) ELSE f

\* CheckNetwork as it would be without the check for an empty graph.
CheckNetworkAnyGraph(f, inputDimensionality, setMode, training, sameMem) ==
  CheckNetworkMode(
    CheckNetworkMemory(
      CheckNetworkParameters(
        CheckNetworkDimensions(Note(f, "CheckNetwork", inputDimensionality, 0),
                               inputDimensionality),
        sameMem)),
    setMode, training)

\* CheckNetwork as it would be if the layers were bound before the parameters
\* are initialized.
CheckNetworkBindsFirst(f, inputDimensionality, setMode, training, sameMem) ==
  IF f.c.network.size = 0
    THEN Throw(Note(f, "CheckNetwork", inputDimensionality, 0), "invalid_argument")
    ELSE CheckNetworkMode(
           CheckNetworkParameters(
             CheckNetworkMemory(
               CheckNetworkDimensions(Note(f, "CheckNetwork", inputDimensionality, 0),
                                      inputDimensionality)),
             sameMem),
           setMode, training)

\* CheckNetwork(functionName, inputDimensionality, setMode, training).
CheckNetwork(f, inputDimensionality, setMode, training, sameMem) ==
  IF f.c.network.size = 0
    THEN Throw(Note(f, "CheckNetwork", inputDimensionality, 0), "invalid_argument")
    ELSE CheckNetworkMode(
           CheckNetworkMemory(
             CheckNetworkParameters(
               CheckNetworkDimensions(Note(f, "CheckNetwork", inputDimensionality, 0),
                                      inputDimensionality),
               sameMem)),
           setMode, training)

----------------------------------------------------------------------------
(* The public members of FFN, as steps of a call frame.                    *)

\* Forward, after CheckNetwork: networkOutput sized, the graph run over the
\* layers [begin, end], results assigned networkOutput.
ForwardPass(f, n, first, begin, end) ==
  IF ~Ok(f) THEN f
  ELSE [Note([f EXCEPT !.c.networkOutput = "sized"], "network.Forward", begin, end) EXCEPT
          !.c.networkOutput = "Forward",
          !.res = GraphOutput(f.c, "Forward", n, first)]

\* Forward over a layer range as it would be without the early return for an
\* empty range.
ForwardRangeAlwaysChecks(f, n_rows, n, first, begin, end, sameMem) ==
  ForwardPass(CheckNetwork(f, n_rows, FALSE, FALSE, sameMem), n, first, begin, end)

\* Forward(inputs, results, begin, end); inputs has n_rows rows and n columns,
\* the first of which is column `first` of the caller's matrix.
ForwardRange(f, n_rows, n, first, begin, end, sameMem) ==
  IF end < begin THEN f
  ELSE ForwardPass(CheckNetwork(f, n_rows, FALSE, FALSE, sameMem), n, first, begin, end)

\* Forward(inputs, results): the whole graph, [0, size - 1] in size_t.
Forward(f, n_rows, n, first, sameMem) ==
  ForwardRange(f, n_rows, n, first, 0, (f.c.network.size - 1) % SizeModulus, sameMem)

\* The alias of columns [at, at + n) of `results` after Forward assigned to it.
ResultAlias(rs, g, at) ==
  IF Ok(g) THEN [g EXCEPT !.res = WriteCols(rs, @, at)] ELSE [g EXCEPT !.res = rs]

\* An iteration of the loop of Predict as it would be if the alias of results
\* began at column 0 in every iteration.
PredictBatchFirstColumns(f, n_rows, effectiveBatchSize, i, sameMem) ==
  ResultAlias(f.res,
              Forward(Note([f EXCEPT !.res = <<>>], "Predict.alias", i, effectiveBatchSize),
                      n_rows, effectiveBatchSize, i, sameMem),
              0)

\* One iteration of the loop of Predict, at column i: the aliases of columns
\* [i, i + effectiveBatchSize) of predictors and results, and Forward on them.
PredictBatch(f, n_rows, effectiveBatchSize, i, sameMem) ==
  ResultAlias(f.res,
              Forward(Note([f EXCEPT !.res = <<>>], "Predict.alias", i, effectiveBatchSize),
                      n_rows, effectiveBatchSize, i, sameMem),
              i)

RECURSIVE PredictLoop(_, _, _, _, _, _)
\* The loop of Predict from column i on.
PredictLoop(f, n_rows, n, batchSize, i, sameMem) ==
  IF ~(i < n) \/ ~Ok(f) THEN f
  ELSE PredictLoop(PredictBatch(f, n_rows, Min(batchSize, n - i), i, sameMem),
                   n_rows, n, batchSize, i + batchSize, sameMem)

\* Predict, after CheckNetwork: results.set_size(network.OutputSize(), n_cols).
PredictResults(f, n) ==
  IF Ok(f) THEN [f EXCEPT !.res = SetSize(f.c, "Predict", n)] ELSE f

\* Predict as it would be if it cleared the parameters first, as Reset does.
PredictAfterClear(f, n_rows, n, batchSize, sameMem) ==
  PredictLoop(PredictResults(CheckNetwork([f EXCEPT !.c = ClearParameters(@)],
                                          n_rows, TRUE, FALSE, sameMem), n),
              n_rows, n, batchSize, 0, sameMem)

\* Predict(predictors, results, batchSize), for batchSize >= 1.
Predict(f, n_rows, n, batchSize, sameMem) ==
  PredictLoop(PredictResults(CheckNetwork(f, n_rows, TRUE, FALSE, sameMem), n),
              n_rows, n, batchSize, 0, sameMem)

\* return network.WeightSize().
ReturnWeightSize(f) == [f EXCEPT !.res = [size |-> f.c.network.WeightSize]]

\* WeightSize(): UpdateDimensions with its default inputDimensionality, 0,
\* then the graph's weight size.
WeightSize(f) == ReturnWeightSize(UpdateDimensions(f, 0))

\* Reset as it would be if it only cleared the parameters and left the
\* reinitialization to the next pass.
ResetClearOnly(f, inputDimensionality, sameMem) ==
  [f EXCEPT !.c = ClearParameters(@)]

\* Reset(inputDimensionality).
Reset(f, inputDimensionality, sameMem) ==
  IF inputDimensionality # 0
    THEN CheckNetwork([f EXCEPT !.c = ClearParameters(@)],
                      inputDimensionality, TRUE, FALSE, sameMem)
    ELSE CheckNetwork([f EXCEPT !.c = ClearParameters(@)],
                      Accumulate(f.c.inputDimensions), TRUE, FALSE, sameMem)

\* Backward as it would be if it put the network in training mode first.
BackwardInTrainingMode(f) ==
  [Note([Note([Note(Note(SetNetworkMode(f, TRUE), "outputLayer.Forward", 0, 0),
                    "outputLayer.Backward", 0, 0) EXCEPT !.c.error = "set"],
              "network.Backward", 0, 0) EXCEPT !.c.networkDelta = "set"],
        "network.Gradient", 0, 0) EXCEPT
     !.res = [n_elem |-> f.c.parameters.n_elem, sum |-> <<>>,
              loss |-> {"outputLayer.Forward", "network.Loss"},
              output |-> f.c.networkOutput]]

\* Backward(inputs, targets, gradients): no CheckNetwork; the loss and the
\* error are those of networkOutput as the last pass left it (output); the
\* value returned is the sum of the terms in loss; gradients is sized as the
\* parameters are.
Backward(f) ==
  [Note([Note([Note(Note(f, "outputLayer.Forward", 0, 0),
                    "outputLayer.Backward", 0, 0) EXCEPT !.c.error = "set"],
              "network.Backward", 0, 0) EXCEPT !.c.networkDelta = "set"],
        "network.Gradient", 0, 0) EXCEPT
     !.res = [n_elem |-> f.c.parameters.n_elem, sum |-> <<>>,
              loss |-> {"outputLayer.Forward", "network.Loss"},
              output |-> f.c.networkOutput]]

\* Evaluate(predictors, responses) as it would be if it ran the graph into
\* an output of its own.
EvaluatePassOwnOutput(f) ==
  IF ~Ok(f) THEN f
  ELSE Note(Note(f, "network.Forward", 0, 0), "outputLayer.Forward", 0, 0)

\* Evaluate(predictors, responses), after CheckNetwork.
EvaluatePass(f) ==
  IF ~Ok(f) THEN f
  ELSE Note([Note(f, "network.Forward", 0, 0) EXCEPT !.c.networkOutput = "Evaluate"],
            "outputLayer.Forward", 0, 0)

\* Evaluate(predictors, responses).
Evaluate(f, n_rows, n, sameMem) ==
  EvaluatePass(CheckNetwork(f, n_rows, FALSE, FALSE, sameMem))

\* The column range [begin, begin + batchSize) lies in the stored dataset;
\* otherwise predictors.cols() throws (Armadillo's bounds check) or, in a build
\* without the check, the pass goes on over memory outside the matrix.
InBounds(c, begin, batchSize) ==
  batchSize >= 1 /\ begin + batchSize <= c.predictors.n_cols

\* The forward pass of a mini-batch call, after CheckNetwork.
BatchForward(f, by, begin, batchSize) ==
  IF ~Ok(f) THEN f
  ELSE IF ~InBounds(f.c, begin, batchSize) /\ f.checked
    THEN Throw([f EXCEPT !.c.networkOutput = "sized"], "out_of_bounds")
  ELSE [Note([f EXCEPT !.c.networkOutput = "sized"], "network.Forward", begin, batchSize)
          EXCEPT !.c.networkOutput = by]

\* The objective of a mini-batch call: the loss of the examples at `begin`.
BatchLoss(f, begin, batchSize) ==
  IF ~Ok(f) THEN f
  ELSE [Note(f, "outputLayer.Forward", begin, batchSize) EXCEPT
          !.res = [n_elem |-> 0, sum |-> <<begin>>]]

\* The backward pass of EvaluateWithGradient.
BatchBackward(f, begin, batchSize) ==
  IF ~Ok(f) THEN f
  ELSE Note([Note(f, "outputLayer.Backward", begin, batchSize) EXCEPT
               !.c.error = "set", !.c.networkDelta = "set"],
            "network.Backward", begin, batchSize)

\* The gradient of EvaluateWithGradient, sized as the parameters are.
BatchGradient(f, begin, batchSize) ==
  IF ~Ok(f) THEN f
  ELSE [Note(f, "network.Gradient", begin, batchSize) EXCEPT
          !.res.n_elem = f.c.parameters.n_elem]

\* Evaluate(parameters, begin, batchSize).
EvaluateBatch(f, begin, batchSize, sameMem) ==
  BatchLoss(
    BatchForward(CheckNetwork(f, f.c.predictors.n_rows, FALSE, FALSE, sameMem),
                 "Evaluate", begin, batchSize),
    begin, batchSize)

\* EvaluateWithGradient(parameters, begin, gradient, batchSize).
EvaluateWithGradientBatch(f, begin, batchSize, sameMem) ==
  BatchGradient(
    BatchBackward(
      BatchLoss(
        BatchForward(CheckNetwork(f, f.c.predictors.n_rows, FALSE, FALSE, sameMem),
                     "EvaluateWithGradient", begin, batchSize),
        begin, batchSize),
      begin, batchSize),
    begin, batchSize)

\* Gradient(parameters, begin, gradient, batchSize).
Gradient(f, begin, batchSize, sameMem) ==
  EvaluateWithGradientBatch(f, begin, batchSize, sameMem)

\* res += the objective (and gradient) of one more example.
Accumulated(sofar, g) ==
  IF Ok(g) THEN [g EXCEPT !.res.sum = sofar.sum \o @] ELSE [g EXCEPT !.res = sofar]

RECURSIVE EvaluateLoop(_, _, _)
\* The loop of Evaluate(parameters) from example i on.
EvaluateLoop(f, i, sameMem) ==
  IF ~(i < f.c.predictors.n_cols) \/ ~Ok(f) THEN f
  ELSE EvaluateLoop(Accumulated(f.res, EvaluateBatch(f, i, 1, sameMem)), i + 1, sameMem)

\* Evaluate(parameters): the sum over the stored examples.
EvaluateParameters(f, sameMem) ==
  EvaluateLoop([f EXCEPT !.res = [n_elem |-> 0, sum |-> <<>>]], 0, sameMem)

RECURSIVE EvaluateWithGradientLoop(_, _, _)
\* The loop of EvaluateWithGradient(parameters, gradient) from example i on.
EvaluateWithGradientLoop(f, i, sameMem) ==
  IF ~(i < f.c.predictors.n_cols) \/ ~Ok(f) THEN f
  ELSE EvaluateWithGradientLoop(
         Accumulated(f.res, EvaluateWithGradientBatch(f, i, 1, sameMem)), i + 1, sameMem)

\* EvaluateWithGradient(parameters, gradient): example 0, then the others.
EvaluateWithGradient(f, sameMem) ==
  EvaluateWithGradientLoop(EvaluateWithGradientBatch(f, 0, 1, sameMem), 1, sameMem)

\* Shuffle(): the columns of the stored dataset are permuted, shapes kept.
Shuffle(f) == Note(f, "ShuffleData", 0, 0)

\* ResetData(predictors, responses).
ResetData(f, predictors, responses) ==
  SetNetworkMode([f EXCEPT !.c.predictors = predictors, !.c.responses = responses], TRUE)

\* Train as it would be if it validated the network before storing the data.
\* (ResetData is unfolded: the check must see the frame before it.)
TrainChecksFirst(f, predictors, responses, sameMem) ==
  Invoke(SetNetworkMode(
           [CheckNetwork(f, predictors.n_rows, FALSE, FALSE, sameMem) EXCEPT
              !.c.predictors = predictors, !.c.responses = responses],
           TRUE),
         "optimizer.Optimize", 0, 0)

\* Train(predictors, responses, optimizer, callbacks...) up to the call of
\* optimizer.Optimize(*this, parameters, callbacks...).
Train(f, predictors, responses, sameMem) ==
  Invoke(CheckNetwork(ResetData(f, predictors, responses),
                      predictors.n_rows, TRUE, TRUE, sameMem),
         "optimizer.Optimize", 0, 0)

\* A moved matrix keeps its storage (sameMem), or its elements are copied to
\* storage of the new object and the old storage is released.
MovedParameters(c, sameMem) ==
  [c EXCEPT !.network.weights = IF @ = "parameters" /\ ~sameMem THEN "released" ELSE @]

\* FFN(FFN&& network): the members moved, layerMemoryIsSet reset, the three
\* scratch matrices default-constructed.
MoveConstructor(c, sameMem) ==
  [MovedParameters(c, sameMem) EXCEPT
            !.layerMemoryIsSet = FALSE,
            !.networkOutput = "none",
            !.networkDelta = "none",
            !.error = "none"]

\* operator=(FFN&& other): every member moved, both flags among them.
MoveAssignment(c, sameMem) == MovedParameters(c, sameMem)

\* serialize(ar, version) when loading, from an archive an object in state c
\* wrote: the six archived members are read (the graph's layers are built
\* anew, bound to no weights), then the dataset, two scratch matrices and
\* both flags are cleared.
Load(c) ==
  [c EXCEPT !.network.weights = "null",
            !.predictors = EmptyMat,
            !.responses = EmptyMat,
            !.networkOutput = "none",
            !.networkDelta = "none",
            !.layerMemoryIsSet = FALSE,
            !.inputDimensionsAreSet = FALSE]

----------------------------------------------------------------------------
(* The state machine: one action per public member function.               *)

\* FFN(outputLayer, initializeRule), and the caller's configuration of the
\* new object: `size` layers added to the graph, InputDimensions() set or not.
Constructor(kind, size, dims) ==
  [network |-> NewGraph(kind, size),
   parameters |-> [n_elem |-> 0],
   inputDimensions |-> dims,
   predictors |-> EmptyMat,
   responses |-> EmptyMat,
   networkOutput |-> "none",
   networkDelta |-> "none",
   error |-> "none",
   training |-> FALSE,
   layerMemoryIsSet |-> FALSE,
   inputDimensionsAreSet |-> FALSE]

\* The outcomes of the allocator that can be told apart: none while the
\* layers' views point at nothing.
Allocs == IF ffn.network.weights = "null" THEN {FALSE} ELSE BOOLEAN

\* Column counts of the matrices handed to Predict.
PredictCols == 0..(MaxCols + 1)

Call(name, n_rows, n, a, b) == [name |-> name, n_rows |-> n_rows, n |-> n, a |-> a, b |-> b]

Init ==
  /\ \E kind \in Kinds, size \in 0..MaxLayers, dims \in DimChoices :
       /\ size = 0 => kind = "Linear"
       /\ ffn = Constructor(kind, size, dims)
  /\ op = Call("FFN", 0, 0, 0, 0)
  /\ err = "none"
  /\ log = <<>>
  /\ results = <<>>
  /\ pc = "idle"

\* The public call `call` ran as frame f on the object.
Return(call, f) ==
  /\ ffn' = f.c
  /\ op' = call
  /\ err' = f.err
  /\ log' = f.log
  /\ results' = f.res

CallTrain ==
  /\ pc = "idle"
  /\ \E n_rows \in Rows, n \in 1..MaxCols, sameMem \in Allocs :
       LET f == Train(Frame(ffn), Mat(n_rows, n), Mat(1, n), sameMem)
       IN  /\ Return(Call("Train", n_rows, n, 0, 0), f)
           /\ pc' = IF f.err = "none" THEN "optimizing" ELSE "idle"

\* optimizer.Optimize returns, and Train with it, returning its value (out).
OptimizeReturn ==
  /\ pc = "optimizing"
  /\ pc' = "idle"
  /\ Return(Call("Train.return", 0, 0, 0, 0),
            [Frame(ffn) EXCEPT !.res = [out |-> "optimizer.Optimize"]])

\* A member the optimizer calls back, or the caller calls directly; an
\* exception thrown inside Optimize leaves Train too.
Callback(call, f) ==
  /\ Return(call, f)
  /\ pc' = IF f.err = "none" THEN pc ELSE "idle"

CallEvaluateBatch ==
  \E begin \in 0..MaxCols, batchSize \in BatchSizes, sameMem \in Allocs :
    /\ ffn.network.size = 0 \/ InBounds(ffn, begin, batchSize)
    /\ Callback(Call("EvaluateBatch", 0, 0, begin, batchSize),
                EvaluateBatch(Frame(ffn), begin, batchSize, sameMem))

CallEvaluateWithGradientBatch ==
  \E begin \in 0..MaxCols, batchSize \in BatchSizes, sameMem \in Allocs :
    /\ ffn.network.size = 0 \/ InBounds(ffn, begin, batchSize)
    /\ Callback(Call("EvaluateWithGradientBatch", 0, 0, begin, batchSize),
                EvaluateWithGradientBatch(Frame(ffn), begin, batchSize, sameMem))

CallGradient ==
  \E begin \in 0..MaxCols, batchSize \in BatchSizes, sameMem \in Allocs :
    /\ ffn.network.size = 0 \/ InBounds(ffn, begin, batchSize)
    /\ Callback(Call("Gradient", 0, 0, begin, batchSize),
                Gradient(Frame(ffn), begin, batchSize, sameMem))

CallEvaluateParameters ==
  \E sameMem \in Allocs :
    Callback(Call("EvaluateParameters", 0, 0, 0, 0), EvaluateParameters(Frame(ffn), sameMem))

\* With no stored example, the call reads column 0 of an empty matrix: the
\* bounds check catches it, or nothing does.
CallEvaluateWithGradient ==
  \E sameMem \in Allocs,
     checked \in (IF ffn.predictors.n_cols = 0 THEN BOOLEAN ELSE {TRUE}) :
    Callback(Call("EvaluateWithGradient", 0, 0, 0, 0),
             EvaluateWithGradient([Frame(ffn) EXCEPT !.checked = checked], sameMem))

CallShuffle ==
  Callback(Call("Shuffle", 0, 0, 0, 0), Shuffle(Frame(ffn)))

CallPredict ==
  /\ pc = "idle"
  /\ \E n_rows \in Rows, n \in PredictCols, batchSize \in BatchSizes, sameMem \in Allocs :
       Return(Call("Predict", n_rows, n, batchSize, 0),
              Predict(Frame(ffn), n_rows, n, batchSize, sameMem))
  /\ UNCHANGED pc

CallForward ==
  /\ pc = "idle"
  /\ \E n_rows \in Rows, n \in 1..MaxCols, sameMem \in Allocs :
       Return(Call("Forward", n_rows, n, 0, 0), Forward(Frame(ffn), n_rows, n, 0, sameMem))
  /\ UNCHANGED pc

\* Forward with an explicit layer range; a range of a non-empty graph lies
\* within its layers unless it is empty (end < begin).
CallForwardRange ==
  /\ pc = "idle"
  /\ \E n_rows \in Rows, n \in {1}, begin \in 0..MaxLayers, end \in 0..MaxLayers,
        sameMem \in Allocs :
       /\ ffn.network.size = 0 \/ end < begin \/ end < ffn.network.size
       /\ Return(Call("ForwardRange", n_rows, n, begin, end),
                 ForwardRange(Frame(ffn), n_rows, n, 0, begin, end, sameMem))
  /\ UNCHANGED pc

CallBackward ==
  /\ pc = "idle"
  /\ Return(Call("Backward", 0, 0, 0, 0), Backward(Frame(ffn)))
  /\ UNCHANGED pc

CallEvaluate ==
  /\ pc = "idle"
  /\ \E n_rows \in Rows, n \in {1}, sameMem \in Allocs :
       Return(Call("Evaluate", n_rows, n, 0, 0), Evaluate(Frame(ffn), n_rows, n, sameMem))
  /\ UNCHANGED pc

CallWeightSize ==
  /\ pc = "idle"
  /\ Return(Call("WeightSize", 0, 0, 0, 0), WeightSize(Frame(ffn)))
  /\ UNCHANGED pc

CallReset ==
  /\ pc = "idle"
  /\ \E inputDimensionality \in {0} \cup Rows, sameMem \in Allocs :
       Return(Call("Reset", 0, 0, inputDimensionality, 0),
              Reset(Frame(ffn), inputDimensionality, sameMem))
  /\ UNCHANGED pc

\* The object is move-constructed into a new object, which is followed on.
MoveConstruct ==
  /\ pc = "idle"
  /\ \E sameMem \in Allocs :
       Return(Call("MoveConstructor", 0, 0, 0, 0), Frame(MoveConstructor(ffn, sameMem)))
  /\ UNCHANGED pc

\* The object is move-assigned to another object, which is followed on.
MoveAssign ==
  /\ pc = "idle"
  /\ \E sameMem \in Allocs :
       Return(Call("MoveAssignment", 0, 0, 0, 0), Frame(MoveAssignment(ffn, sameMem)))
  /\ UNCHANGED pc

\* serialize() when saving: the object is read, not changed.
Save ==
  /\ pc = "idle"
  /\ Return(Call("Save", 0, 0, 0, 0), Frame(ffn))
  /\ UNCHANGED pc

\* serialize() when loading, from an archive the object itself was saved to.
CallLoad ==
  /\ pc = "idle"
  /\ Return(Call("Load", 0, 0, 0, 0), Frame(Load(ffn)))
  /\ UNCHANGED pc

Next ==
  \/ CallTrain
  \/ OptimizeReturn
  \/ CallEvaluateBatch
  \/ CallEvaluateWithGradientBatch
  \/ CallGradient
  \/ CallEvaluateParameters
  \/ CallEvaluateWithGradient
  \/ CallShuffle
  \/ CallPredict
  \/ CallForward
  \/ CallForwardRange
  \/ CallBackward
  \/ CallEvaluate
  \/ CallWeightSize
  \/ CallReset
  \/ MoveConstruct
  \/ MoveAssign
  \/ Save
  \/ CallLoad

Spec == Init /\ [][Next]_vars

----------------------------------------------------------------------------
(* Predict, one step of its loop at a time: the loop index i is op.b, the  *)
(* log holds the calls of the last step, and pc is at the loop's test or   *)
(* in its body. batchSize may be 0 here.                                   *)

\* batchSize arguments of Predict, 0 among them.
PredictBatchSizes == 0..MaxCols

\* Predict up to its loop: CheckNetwork, results.set_size, i = 0.
PredictEnter ==
  /\ pc = "idle"
  /\ \E n_rows \in Rows, n \in PredictCols, batchSize \in PredictBatchSizes,
        sameMem \in Allocs :
       LET f == PredictResults(CheckNetwork(Frame(ffn), n_rows, TRUE, FALSE, sameMem), n)
       IN  /\ Return(Call("Predict", n_rows, n, batchSize, 0), f)
           /\ pc' = IF Ok(f) THEN "Predict.test" ELSE "idle"

\* The test of the loop: i < predictors.n_cols, or Predict returns.
PredictTest ==
  /\ pc = "Predict.test"
  /\ UNCHANGED <<ffn, err, log, results>>
  /\ IF op.b < op.n
       THEN /\ pc' = "Predict.body"
            /\ UNCHANGED op
       ELSE /\ pc' = "idle"
            /\ op' = [op EXCEPT !.name = "Predict.return"]

\* The body of the loop, and i += batchSize.
PredictBody ==
  /\ pc = "Predict.body"
  /\ \E sameMem \in Allocs :
       LET f == PredictBatch([Frame(ffn) EXCEPT !.res = results],
                             op.n_rows, Min(op.a, op.n - op.b), op.b, sameMem)
       IN  /\ Return([op EXCEPT !.b = op.b + op.a], f)
           /\ pc' = IF Ok(f) THEN "Predict.test" ELSE "idle"

NextPredict ==
  \/ PredictEnter
  \/ PredictTest
  \/ PredictBody

\* Control leaves the body of the loop: every PredictBody step is one, and
\* NextPredict has no other step from there.
PredictBodyEnds == pc = "Predict.body" /\ pc' \in {"Predict.test", "idle"}

\* The program goes on running: at the test of the loop it takes the test,
\* in the body it comes to the body's end.
SpecPredict ==
  Init /\ [][NextPredict]_vars /\ WF_vars(PredictTest) /\ WF_pc(PredictBodyEnds)

----------------------------------------------------------------------------
(* Properties. A state of the machine is the object after a public call,   *)
(* with the call (op), the exception it ended with (err), the calls it     *)
(* made in order (log) and its output argument (results).                  *)

GraphCalls == {"network.Forward", "network.Backward", "network.Gradient"}

LogHas(name) == \E i \in DOMAIN log : log[i].e = name

\* The call made no call of the graph's passes, the initializer or the optimizer.
NoCollaboratorCall ==
  \A i \in DOMAIN log :
    log[i].e \notin GraphCalls \cup {"InitializeWeights", "optimizer.Optimize"}

\* C1: both readiness flags are false in the object that results from
\* construction, from a move (construction or assignment) and from loading.
C1_FlagsFalseAfterConstructionMoveLoad ==
  op.name \in {"FFN", "MoveConstructor", "MoveAssignment", "Load"} =>
    ~ffn.layerMemoryIsSet /\ ~ffn.inputDimensionsAreSet

\* C2 as stated: every call of the graph's Forward, Backward or Gradient is
\* made by an entry point that began with CheckNetwork, with both flags true.
C2_EveryGraphCallChecked ==
  \A i \in DOMAIN log :
    log[i].e \in GraphCalls =>
      log[1].e = "CheckNetwork" /\ log[i].lm /\ log[i].ids

\* C2: every call of the graph's Forward, Backward or Gradient made by an
\* entry point other than Backward is made after that entry point began with
\* CheckNetwork, with both flags true; Backward runs no CheckNetwork and calls
\* the graph's Backward and Gradient whatever the flags are.
C2_GraphCallsCheckedExceptBackward ==
  /\ op.name # "Backward" =>
       \A i \in DOMAIN log :
         log[i].e \in GraphCalls =>
           log[1].e = "CheckNetwork" /\ log[i].lm /\ log[i].ids
  /\ op.name = "Backward" =>
       /\ ~LogHas("CheckNetwork")
       /\ LogHas("network.Backward") /\ LogHas("network.Gradient")

\* An optimizer callback of Train reached the graph's Gradient.
C2_Witness ==
  /\ pc = "optimizing"
  /\ op.name = "EvaluateWithGradientBatch"
  /\ err = "none"
  /\ LogHas("network.Gradient")

\* C3: in every reachable state, if layerMemoryIsSet is true then the
\* parameters have as many elements as the graph has weights.
C3_BoundBufferHasWeightSize ==
  ffn.layerMemoryIsSet => ffn.parameters.n_elem = ffn.network.WeightSize

\* Reset cleared and reinitialized the parameters of a bound network.
C3_Witness ==
  /\ op.name = "Reset"
  /\ ffn.layerMemoryIsSet
  /\ LogHas("InitializeWeights")
  /\ ffn.parameters.n_elem > 0

\* C4: no call of the graph's Forward, Backward or Gradient is made while the
\* layers' weight views point at storage the parameters have left.
C4_NoPassThroughStaleAliases ==
  \A i \in DOMAIN log :
    log[i].e \in GraphCalls => log[i].weights # "released"

\* C5: a Reset resets both flags, so that the CheckNetwork it goes on to
\* propagates the dimensions (UpdateDimensions) and binds the layers
\* (SetLayerMemory) anew; a load ends with both flags false.
C5_StructuralChangeResetsFlags ==
  /\ (op.name = "Reset" /\ err = "none") =>
       LogHas("UpdateDimensions") /\ LogHas("SetLayerMemory")
  /\ op.name = "Load" => ~ffn.layerMemoryIsSet /\ ~ffn.inputDimensionsAreSet

PassEntryPoints ==
  {"Train", "Predict", "Forward", "ForwardRange", "Backward", "Evaluate",
   "EvaluateBatch", "EvaluateParameters", "EvaluateWithGradient",
   "EvaluateWithGradientBatch", "Gradient", "Reset"}

\* C6 as stated: on a graph of zero layers every pass entry point fails with
\* std::invalid_argument and calls neither the graph's passes, the initializer
\* nor the optimizer.
C6_EmptyGraphAlwaysFails ==
  (ffn.network.size = 0 /\ op.name \in PassEntryPoints) =>
    err = "invalid_argument" /\ NoCollaboratorCall

\* The calls that return before any check: Forward over an empty layer range,
\* and Evaluate(parameters) over an empty stored dataset.
C6_NothingToDo ==
  \/ op.name = "ForwardRange" /\ op.b < op.a
  \/ op.name = "EvaluateParameters" /\ ffn.predictors.n_cols = 0

\* C6: on a graph of zero layers every pass entry point other than Backward
\* fails with std::invalid_argument, unless it has nothing to do (an empty
\* layer range, an empty stored dataset) and returns at once, and calls neither
\* the graph's passes, the initializer nor the optimizer; Backward checks
\* nothing and calls the graph's Backward and Gradient.
C6_EmptyGraphFailsWhereChecked ==
  (ffn.network.size = 0 /\ op.name \in PassEntryPoints) =>
    /\ (op.name # "Backward" /\ ~C6_NothingToDo) =>
         err = "invalid_argument" /\ NoCollaboratorCall
    /\ C6_NothingToDo => err = "none" /\ log = <<>>
    /\ op.name = "Backward" =>
         err = "none" /\ LogHas("network.Backward") /\ LogHas("network.Gradient")

\* Train failed on a graph of zero layers.
C6_Witness ==
  /\ ffn.network.size = 0
  /\ op.name = "Train"
  /\ err = "invalid_argument"

\* The input size the caller of the last call declared: the rows of the data,
\* or the argument of Reset.
DeclaredSize == IF op.name = "Reset" THEN op.a ELSE op.n_rows

\* C7: a call of Train, Predict, Forward, Evaluate or Reset(nonzero) on a
\* non-empty graph whose declared input size differs from the product of the
\* bound input dimensions ends with std::logic_error, raised before
\* InitializeWeights.
C7_MismatchAlwaysRaised ==
  (/\ \/ op.name \in {"Train", "Predict", "Forward", "Evaluate", "Reset"}
      \/ op.name = "ForwardRange" /\ op.b >= op.a
   /\ ffn.network.size > 0
   /\ DeclaredSize # 0
   /\ DeclaredSize # Product(ffn.inputDimensions)) =>
    err = "logic_error" /\ ~LogHas("InitializeWeights")

\* C8 as stated: a call that ends with std::logic_error leaves the
\* parameters, the stored dataset, the mode and both flags as they were.
C8_FailedCallChangesNothing ==
  [][err' = "logic_error" =>
       /\ ffn'.parameters = ffn.parameters
       /\ ffn'.predictors = ffn.predictors
       /\ ffn'.responses = ffn.responses
       /\ ffn'.training = ffn.training
       /\ ffn'.network.Training = ffn.network.Training
       /\ ffn'.layerMemoryIsSet = ffn.layerMemoryIsSet
       /\ ffn'.inputDimensionsAreSet = ffn.inputDimensionsAreSet]_vars

\* C8: a call that ends with std::logic_error leaves both flags as they were;
\* it leaves the parameters as they were unless it is Reset, which has cleared
\* them; it leaves the stored dataset and the mode as they were unless it is
\* Train, which has stored its dataset and set the training mode.
C8_FailedCallChangesLittle ==
  [][err' = "logic_error" =>
       /\ ffn'.layerMemoryIsSet = ffn.layerMemoryIsSet
       /\ ffn'.inputDimensionsAreSet = ffn.inputDimensionsAreSet
       /\ op'.name # "Reset" => ffn'.parameters = ffn.parameters
                                /\ ffn'.network.weights = ffn.network.weights
       /\ op'.name = "Reset" => ffn'.parameters.n_elem = 0
       /\ op'.name # "Train" =>
            /\ ffn'.predictors = ffn.predictors
            /\ ffn'.responses = ffn.responses
            /\ ffn'.training = ffn.training
            /\ ffn'.network.Training = ffn.network.Training
       /\ op'.name = "Train" =>
            /\ ffn'.predictors = Mat(op'.n_rows, op'.n)
            /\ ffn'.responses = Mat(1, op'.n)
            /\ ffn'.training /\ ffn'.network.Training]_vars

\* Train failed on data that does not match the input dimensions, after a
\* pass had initialized the parameters.
C8_Witness ==
  /\ op.name = "Train"
  /\ err = "logic_error"
  /\ ffn.parameters.n_elem > 0
  /\ ffn.predictors.n_rows = op.n_rows

\* The aliases the loop of the last Predict made, in order.
PredictAliases == SelectSeq(log, LAMBDA ev : ev.e = "Predict.alias")

\* C9: a Predict that returns has sized results [OutputSize, n], has called
\* Forward once on each of the consecutive column ranges
\* [i, i + min(batchSize, n - i)), which cover the n columns exactly once, and
\* has left in every column of results the graph's output for the same column
\* of predictors, in evaluation mode, whatever batchSize is.
C9_PredictCoversEveryColumnOnce ==
  (op.name = "Predict" /\ err = "none") =>
    LET al == PredictAliases
    IN  /\ results.n_rows = ffn.network.OutputSize
        /\ Len(results.cols) = op.n
        /\ \A j \in 1..op.n : results.cols[j] = ColOut(j - 1, FALSE)
        /\ \A k \in 1..Len(al) :
             /\ al[k].a = (IF k = 1 THEN 0 ELSE al[k - 1].a + al[k - 1].b)
             /\ al[k].b = Min(op.a, op.n - al[k].a)
             /\ al[k].b >= 1
        /\ (IF Len(al) = 0 THEN 0 ELSE al[Len(al)].a + al[Len(al)].b) = op.n
        /\ Cardinality({i \in DOMAIN log : log[i].e = "network.Forward"}) = Len(al)

\* Predict on three columns in batches of two: the last batch is smaller.
C9_Witness ==
  /\ op.name = "Predict"
  /\ err = "none"
  /\ op.n = 3
  /\ op.a = 2
  /\ Len(PredictAliases) = 2

\* C10 as stated: Predict neither reinitializes nor changes the parameters,
\* and calls no Gradient.
C10_PredictLeavesParameters ==
  [][op'.name = "Predict" =>
       /\ ffn'.parameters = ffn.parameters
       /\ \A i \in DOMAIN log' :
            log'[i].e \notin {"InitializeWeights", "network.Gradient", "network.Backward"}]_vars

\* C10: Predict calls neither Backward nor Gradient; it leaves parameters that
\* are not empty and have the graph's weight size as they are, without a call
\* of InitializeWeights; it changes the parameters only through
\* InitializeWeights, which its CheckNetwork calls when they are empty or of
\* another size.
C10_PredictInitializesOnlyWhenNeeded ==
  [][op'.name = "Predict" =>
       /\ \A i \in DOMAIN log' :
            log'[i].e \notin {"network.Gradient", "network.Backward"}
       /\ (ffn.parameters.n_elem # 0 /\ ffn.parameters.n_elem = ffn'.network.WeightSize) =>
            /\ ffn'.parameters = ffn.parameters
            /\ \A i \in DOMAIN log' : log'[i].e # "InitializeWeights"
       /\ ffn'.parameters # ffn.parameters =>
            \E i \in DOMAIN log' : log'[i].e = "InitializeWeights"]_vars

\* Predict ran on initialized parameters without a call of InitializeWeights.
C10_Witness ==
  /\ op.name = "Predict"
  /\ err = "none"
  /\ op.n > 0
  /\ ffn.parameters.n_elem > 0
  /\ ~LogHas("InitializeWeights")

\* C11: Forward over a layer range with end >= begin that returns has stored
\* the graph's output in networkOutput and left results equal to it (one
\* output column per input column); with end < begin it runs no CheckNetwork,
\* changes nothing in the object and does not write results.
C11_ForwardStoresOrDoesNothing ==
  [][op'.name \in {"Forward", "ForwardRange"} =>
       /\ (op'.name = "ForwardRange" /\ op'.b < op'.a) =>
            /\ ffn' = ffn
            /\ log' = <<>>
            /\ err' = "none"
            /\ results' = <<>>
       /\ (~(op'.name = "ForwardRange" /\ op'.b < op'.a) /\ err' = "none") =>
            /\ ffn'.networkOutput = "Forward"
            /\ results'.by = "Forward"
            /\ results'.n_rows = ffn'.network.OutputSize
            /\ Len(results'.cols) = op'.n
            /\ \A j \in 1..op'.n :
                 results'.cols[j] = ColOut(j - 1, ffn'.network.Training)
            /\ \E i \in DOMAIN log' : log'[i].e = "network.Forward"]_vars

\* Forward over an empty layer range was called on a network that is bound
\* and holds the output of an earlier Evaluate.
C11_Witness ==
  /\ op.name = "ForwardRange"
  /\ op.b < op.a
  /\ ffn.layerMemoryIsSet
  /\ ffn.networkOutput = "Evaluate"

\* C12: Backward returns the output layer's loss plus the graph's loss, sizes
\* gradients as the parameters are, and leaves the parameters, the stored
\* dataset, the mode and both flags as they were.
C12_BackwardUpdatesNothing ==
  [][op'.name = "Backward" =>
       /\ err' = "none"
       /\ results'.loss = {"outputLayer.Forward", "network.Loss"}
       /\ results'.n_elem = ffn.parameters.n_elem
       /\ ffn'.parameters = ffn.parameters
       /\ ffn'.network.weights = ffn.network.weights
       /\ ffn'.predictors = ffn.predictors
       /\ ffn'.responses = ffn.responses
       /\ ffn'.training = ffn.training
       /\ ffn'.network.Training = ffn.network.Training
       /\ ffn'.layerMemoryIsSet = ffn.layerMemoryIsSet
       /\ ffn'.inputDimensionsAreSet = ffn.inputDimensionsAreSet]_vars

\* Backward ran on the output a Forward left, on bound parameters.
C12_Witness ==
  /\ op.name = "Backward"
  /\ ffn.networkOutput = "Forward"
  /\ ffn.layerMemoryIsSet
  /\ results.n_elem > 0
  /\ ffn.networkDelta = "set"

\* The arguments `begin` of the calls of `name` the last public call made, in
\* order.
CyclesAt(name) ==
  LET evs == SelectSeq(log, LAMBDA ev : ev.e = name)
  IN  [k \in 1..Len(evs) |-> evs[k].a]

\* The indices of N stored examples, in order.
Examples(N) == [k \in 1..N |-> k - 1]

\* C13: EvaluateWithGradient(parameters, gradient) on a network that passes
\* CheckNetwork, with N stored examples, returns after one forward, backward
\* and gradient call of batch size 1 at each of the indices 0..N-1 and no
\* other, having summed the N objectives and the N gradients.
C13_OneCyclePerStoredExample ==
  (op.name = "EvaluateWithGradient" /\ err \notin {"invalid_argument", "logic_error"}) =>
    /\ err = "none"
    /\ CyclesAt("network.Forward") = Examples(ffn.predictors.n_cols)
    /\ CyclesAt("network.Backward") = Examples(ffn.predictors.n_cols)
    /\ CyclesAt("network.Gradient") = Examples(ffn.predictors.n_cols)
    /\ \A i \in DOMAIN log : log[i].e \in GraphCalls => log[i].b = 1
    /\ (ffn.predictors.n_cols > 0 =>
          /\ results.sum = Examples(ffn.predictors.n_cols)
          /\ results.n_elem = ffn.parameters.n_elem)

\* The number of calls of `name` the last public call made.
Calls(name) == Cardinality({i \in DOMAIN log : log[i].e = name})

\* C14: Train first stores the given dataset and turns the training mode on,
\* then calls CheckNetwork with the predictors' row count, and calls the
\* optimizer, once and last, only if CheckNetwork returned; a Train whose
\* CheckNetwork threw has stored the dataset and not called the optimizer;
\* Train returns what the optimizer returned.
C14_TrainOrder ==
  /\ op.name = "Train" =>
       /\ ffn.predictors = Mat(op.n_rows, op.n)
       /\ ffn.responses = Mat(1, op.n)
       /\ Len(log) >= 2
       /\ log[1].e = "SetNetworkMode" /\ log[1].mode
       /\ log[2].e = "CheckNetwork" /\ log[2].a = op.n_rows
       /\ Calls("CheckNetwork") = 1
       /\ err = "none" =>
            /\ Calls("optimizer.Optimize") = 1
            /\ log[Len(log)].e = "optimizer.Optimize"
            /\ ffn.training
            /\ pc = "optimizing"
       /\ err # "none" =>
            /\ Calls("optimizer.Optimize") = 0
            /\ pc = "idle"
  /\ op.name = "Train.return" => results = [out |-> "optimizer.Optimize"]

\* Train reached the optimizer on a network an earlier pass had made ready.
C14_Witness ==
  /\ op.name = "Train"
  /\ err = "none"
  /\ pc = "optimizing"
  /\ ~LogHas("InitializeWeights")
  /\ op.n = 2

\* C15: in every state in which the input dimensions are stored, Reset(0)
\* does what Reset(p) does, p being the product of the stored dimensions: it
\* succeeds if Reset(p) does, and the two leave the object, the parameters
\* among it, in the same state.
C15_ResetZeroIsResetProduct ==
  (pc = "idle" /\ Len(ffn.inputDimensions) > 0) =>
    \A sameMem \in BOOLEAN :
      Reset(Frame(ffn), Product(ffn.inputDimensions), sameMem).err = "none" =>
        /\ Reset(Frame(ffn), 0, sameMem).err = "none"
        /\ Reset(Frame(ffn), 0, sameMem).c =
             Reset(Frame(ffn), Product(ffn.inputDimensions), sameMem).c

\* The public calls that run a pass through the graph after CheckNetwork.
CheckedPasses ==
  {"Predict", "Forward", "Evaluate", "EvaluateBatch", "EvaluateWithGradientBatch", "Gradient"}

\* C16: a Reset of a non-empty graph that returns leaves the parameters
\* empty; with a nonzero argument it has called UpdateDimensions with that
\* argument, whether the dimensions were bound or not; and the next pass
\* calls InitializeWeights and then SetLayerMemory.
C16_ResetLeavesReinitializationToNextPass ==
  /\ [](  (op.name = "Reset" /\ err = "none") =>
            /\ ffn.parameters.n_elem = 0
            /\ op.a # 0 =>
                 \E i \in DOMAIN log :
                   log[i].e = "UpdateDimensions" /\ log[i].a = op.a)
  /\ [][(op.name = "Reset" /\ err = "none" /\ op'.name \in CheckedPasses /\ err' = "none") =>
          \E i, j \in DOMAIN log' :
            /\ i < j
            /\ log'[i].e = "InitializeWeights"
            /\ log'[j].e = "SetLayerMemory"]_vars

\* C17: whenever inputDimensionsAreSet is true, inputDimensions is a
\* non-empty sequence of positive integers, and a pass that has fed data to
\* the graph has fed data whose row count is their product.
C17_BoundDimensionsMatchData ==
  ffn.inputDimensionsAreSet =>
    /\ Len(ffn.inputDimensions) > 0
    /\ \A i \in DOMAIN ffn.inputDimensions : ffn.inputDimensions[i] > 0
    /\ (op.name \in {"Predict", "Forward", "ForwardRange", "Evaluate"}
        /\ LogHas("network.Forward")) =>
         op.n_rows = Product(ffn.inputDimensions)
    /\ (op.name \in {"EvaluateBatch", "EvaluateWithGradientBatch", "Gradient"}
        /\ LogHas("network.Forward")) =>
         ffn.predictors.n_rows = Product(ffn.inputDimensions)

\* C18: a load leaves the stored dataset and the three scratch matrices
\* (networkOutput, networkDelta, error) empty and both flags false, and the
\* layer graph, the parameters, the input dimensions and the mode as the
\* archive holds them (here: as the object that was saved had them).
C18_LoadClearsDatasetAndScratch ==
  [][op'.name = "Load" =>
       /\ ffn'.predictors = EmptyMat
       /\ ffn'.responses = EmptyMat
       /\ ffn'.networkOutput = "none"
       /\ ffn'.networkDelta = "none"
       /\ ffn'.error = "none"
       /\ ~ffn'.layerMemoryIsSet
       /\ ~ffn'.inputDimensionsAreSet
       /\ ffn'.parameters = ffn.parameters
       /\ ffn'.inputDimensions = ffn.inputDimensions
       /\ ffn'.training = ffn.training
       /\ ffn'.network.kind = ffn.network.kind
       /\ ffn'.network.size = ffn.network.size]_vars

\* The frame has a call of `name` in its log.
Made(f, name) == \E i \in DOMAIN f.log : f.log[i].e = name

\* CheckNetwork called again with the same arguments on the object a first
\* call (frame f1) left.
CheckNetworkAgain(f1, inputDimensionality, setMode, training, sameMem) ==
  CheckNetwork(Frame(f1.c), inputDimensionality, setMode, training, sameMem)

StepRank(name) ==
  CASE name = "UpdateDimensions" -> 1
    [] name = "InitializeWeights" -> 2
    [] name = "SetLayerMemory" -> 3
    [] OTHER -> 0

\* Entries i < j of the log belong to the same CheckNetwork call.
SameCheck(i, j) == \A k \in (i + 1)..j : log[k].e # "CheckNetwork"

\* C20: within one CheckNetwork the empty-graph check comes first, then
\* UpdateDimensions (only if the dimensions are not bound), then
\* InitializeWeights (only on empty parameters, with the dimensions bound), then
\* SetLayerMemory (only if the layers are not bound, on parameters that have
\* the graph's weight size: its assertion never fails), then the mode; a step
\* that throws is the last step made.
C20_CheckNetworkStepOrder ==
  /\ err # "runtime_error"
  /\ \A i \in DOMAIN log :
       /\ (log[i].e = "UpdateDimensions" /\ op.name # "WeightSize") =>
            i > 1 /\ log[i - 1].e = "CheckNetwork" /\ ~log[i].ids
       /\ log[i].e = "InitializeWeights" =>
            log[i].ids /\ log[i].n_elem = 0
       /\ log[i].e = "SetLayerMemory" =>
            /\ ~log[i].lm
            /\ log[i].ids
            /\ log[i].n_elem = ffn.network.WeightSize
       /\ \A j \in DOMAIN log :
            (i < j /\ SameCheck(i, j) /\ StepRank(log[i].e) > 0 /\ StepRank(log[j].e) > 0) =>
              StepRank(log[i].e) < StepRank(log[j].e)
  /\ err = "invalid_argument" => log[Len(log)].e = "CheckNetwork"
  /\ err = "logic_error" => log[Len(log)].e = "UpdateDimensions"
  /\ (op.name = "Reset" /\ err = "none") =>
       log[Len(log)].e = "SetNetworkMode" /\ ~log[Len(log)].mode
  /\ (op.name = "Train" /\ err = "none") =>
       log[Len(log) - 1].e = "SetNetworkMode" /\ log[Len(log) - 1].mode

\* A Reset on a new network made every step of CheckNetwork.
C20_Witness ==
  /\ op.name = "Reset"
  /\ err = "none"
  /\ LogHas("UpdateDimensions")
  /\ LogHas("InitializeWeights")
  /\ LogHas("SetLayerMemory")
  /\ ffn.parameters.n_elem > 0

\* The number of calls of `name` in the log of frame f.
MadeCount(f, name) == Cardinality({i \in DOMAIN f.log : f.log[i].e = name})

\* The shape UpdateDimensions resolves for object c and argument d.
ResolvedShape(c, d) == IF Len(c.inputDimensions) = 0 THEN <<d>> ELSE c.inputDimensions

\* C21: in every state and for every argument, an UpdateDimensions that
\* returns has set inputDimensionsAreSet; if the shape it resolves is the one
\* the graph records, it has left the graph alone (no shape pushed, no
\* ComputeOutputDimensions), otherwise it has pushed the shape and called
\* ComputeOutputDimensions once. WeightSize() called twice in a row returns
\* the same value, the second call leaving the object as it was.
C21_UpdateDimensionsCascadesOnlyOnChange ==
  /\ \A d \in {0} \cup Rows :
       LET g == UpdateDimensions(Frame(ffn), d)
       IN  Ok(g) =>
             /\ g.c.inputDimensionsAreSet
             /\ IF ResolvedShape(ffn, d) = ffn.network.InputDimensions
                  THEN /\ MadeCount(g, "ComputeOutputDimensions") = 0
                       /\ g.c.network = ffn.network
                  ELSE /\ MadeCount(g, "ComputeOutputDimensions") = 1
                       /\ g.c.network.InputDimensions = ResolvedShape(ffn, d)
  /\ LET w1 == WeightSize(Frame(ffn))
         w2 == WeightSize(Frame(w1.c))
     IN  /\ Ok(w1) /\ Ok(w2)
         /\ w2.res = w1.res
         /\ w2.c = w1.c
         /\ MadeCount(w2, "ComputeOutputDimensions") = 0
  /\ op.name = "WeightSize" => results = [size |-> ffn.network.WeightSize]

\* WeightSize() was called on a network whose shape the graph already had:
\* UpdateDimensions returned early.
C21_Witness ==
  /\ op.name = "WeightSize"
  /\ LogHas("UpdateDimensions")
  /\ ~LogHas("ComputeOutputDimensions")
  /\ ffn.parameters.n_elem > 0
  /\ results.size = ffn.parameters.n_elem

\* C22: while Train is inside the optimizer, the object and the graph are in
\* training mode, and every forward pass a callback has run through the graph
\* was run in training mode.
C22_TrainingModeThroughoutTrain ==
  pc = "optimizing" =>
    /\ ffn.training
    /\ ffn.network.Training
    /\ \A i \in DOMAIN log : log[i].e = "network.Forward" => log[i].mode

\* C23: every Predict that has entered its loop returns; every pass through
\* the body calls Forward once; and a Predict with batchSize >= 1 returns when
\* its index is the first multiple of batchSize that is at least n, that is
\* after ceil(n / batchSize) passes through the body (none for n = 0).
C23_PredictTerminates ==
  /\ []((pc = "Predict.test" /\ op.b > 0) => Calls("network.Forward") = 1)
  /\ []((op.name = "Predict.return" /\ op.a >= 1) =>
          /\ op.b % op.a = 0
          /\ op.b >= op.n
          /\ op.b - op.a < op.n)
  /\ (pc = "Predict.test") ~> (pc = "idle")

\* The member that writes networkOutput in a call of `name`.
OutputWriter(name) ==
  CASE name \in {"Forward", "ForwardRange", "Predict"} -> "Forward"
    [] name \in {"Evaluate", "EvaluateBatch"} -> "Evaluate"
    [] name = "EvaluateWithGradientBatch" -> "EvaluateWithGradient"

ForwardComputations ==
  {"Forward", "ForwardRange", "Predict", "Evaluate", "EvaluateBatch",
   "EvaluateWithGradientBatch"}

\* Backward computes on networkOutput as the call found it, runs no forward
\* pass and leaves networkOutput as it was.
BackwardUsesStoredOutput ==
  op'.name = "Backward" =>
    /\ results'.output = ffn.networkOutput
    /\ ffn'.networkOutput = ffn.networkOutput
    /\ \A i \in DOMAIN log' : log'[i].e # "network.Forward"
    /\ \E i \in DOMAIN log' : log'[i].e = "outputLayer.Backward"

\* C24 as stated: Backward computes on the networkOutput it finds, runs no
\* forward pass and does not change networkOutput; and every Forward, Predict,
\* Evaluate(predictors, responses), mini-batch Evaluate and mini-batch
\* EvaluateWithGradient that returns has run the graph's forward pass and
\* overwritten networkOutput.
C24_EveryPassOverwritesOutput ==
  [][/\ BackwardUsesStoredOutput
     /\ (op'.name \in ForwardComputations /\ err' = "none") =>
          /\ \E i \in DOMAIN log' : log'[i].e = "network.Forward"
          /\ ffn'.networkOutput = OutputWriter(op'.name)]_vars

\* The calls that return without a forward pass: Predict of a matrix of no
\* columns and Forward over an empty layer range.
NothingToForward ==
  \/ op'.name = "Predict" /\ op'.n = 0
  \/ op'.name = "ForwardRange" /\ op'.b < op'.a

\* C24: Backward computes on the networkOutput it finds, runs no forward pass
\* and does not change networkOutput; each of Forward, Predict,
\* Evaluate(predictors, responses), mini-batch Evaluate and mini-batch
\* EvaluateWithGradient that ran the graph's forward pass has overwritten
\* networkOutput, and each that returns has run it, except Predict of a
\* matrix of no columns and Forward over an empty layer range, which leave
\* networkOutput as it was.
C24_ForwardPassesOverwriteOutput ==
  [][/\ BackwardUsesStoredOutput
     /\ op'.name \in ForwardComputations =>
          /\ (\E i \in DOMAIN log' : log'[i].e = "network.Forward") =>
               ffn'.networkOutput = OutputWriter(op'.name)
          /\ (err' = "none" /\ ~NothingToForward) =>
               \E i \in DOMAIN log' : log'[i].e = "network.Forward"
          /\ (err' = "none" /\ NothingToForward) =>
               /\ \A i \in DOMAIN log' : log'[i].e # "network.Forward"
               /\ ffn'.networkOutput = ffn.networkOutput]_vars

\* Backward computed on the output an Evaluate left in networkOutput.
C24_Witness ==
  /\ op.name = "Backward"
  /\ results.output = "Evaluate"
  /\ ffn.networkOutput = "Evaluate"
  /\ LogHas("outputLayer.Backward")
  /\ ~LogHas("network.Forward")

====
